---- MODULE Spec2Model ----
(***************************************************************************)
(* Serverless image pipeline: upload_image (HTTP) -> queue A ->            *)
(* process_image -> queue B -> log_notification.                           *)
(*                                                                         *)
(* The two buckets and the two topics are shared state; every handler      *)
(* invocation is a small program whose steps are its calls to the store    *)
(* and to the queue.                                                       *)
(***************************************************************************)
EXTENDS Integers, Sequences, FiniteSets, TLC

VARIABLES
    rawStore,        \* the -uploads bucket: object name -> bytes
    processedStore,  \* the -processed bucket: object name -> bytes
    queueA,          \* image-processing-requests: published messages, in order
    queueB,          \* image-processing-results: published messages, in order
    nEvents,         \* events delivered to the two consumers so far
    http,            \* the upload_image invocation in flight (or the last one)
    nRequests,       \* HTTP requests received so far
    responses,       \* history: the answered invocations that had an upload_id
    proc,            \* proc[w]: the process_image invocation of instance w
    notif,           \* the last log_notification invocation
    sink             \* the lines printed to Cloud Logging, in order

vars == <<rawStore, processedStore, queueA, queueB, nEvents, http,
          nRequests, responses, proc, notif, sink>>

-----------------------------------------------------------------------------
(* Bounds of the model *)

\* HTTP requests sent to upload_image in a run.
MaxUploads == 1
\* Events delivered to process_image and log_notification in a run,
\* redeliveries included.
MaxEvents == 3

-----------------------------------------------------------------------------
(* Configuration and inputs *)

UPLOADS_BUCKET == "demo-uploads"
PROCESSED_BUCKET == "demo-processed"

ALLOWED_EXTENSIONS == {".jpg", ".jpeg", ".png", ".gif", ".bmp", ".webp", ".tiff"}

\* Instances of process_image that may run at the same time.
Workers == {"w1", "w2"}

\* File contents: two decodable images; any other content, such as a file of
\* zero bytes, is not an image Pillow can open.
ValidImages == {"IMG1", "IMG2"}
NoBytes == ""

\* datetime.utcnow().strftime("%Y%m%d_%H%M%S"): a whole run happens within
\* one second of wall-clock time, so that only the uuid tells keys apart.
UtcNowStamp == "20240101_120000"

\* datetime.now(timezone.utc).isoformat() at the tick-th reading of the
\* clock by a handler: later readings give later times.
UtcNowIso(tick) == "2024-01-01T12:00:00." \o ToString(tick) \o "+00:00"

\* A filename is a sequence of characters.
NoFile == [present |-> FALSE, filename |-> <<>>, content |-> NoBytes,
           content_type |-> ""]

File(name, content, ctype) ==
    [present |-> TRUE, filename |-> name, content |-> content,
     content_type |-> ctype]

CatJpg == <<"c", "a", "t", ".", "j", "p", "g">>
PhotoPNG == <<"p", ".", "P", "N", "G">>
NotesTxt == <<"n", ".", "t", "x", "t">>
DotPng == <<".", "p", "n", "g">>

\* The HTTP requests the model sends to upload_image.
Requests ==
    { [method |-> "OPTIONS", file |-> NoFile],
      [method |-> "GET", file |-> NoFile],
      [method |-> "DELETE", file |-> File(CatJpg, "IMG1", "image/jpeg")],
      [method |-> "POST", file |-> NoFile],
      [method |-> "POST", file |-> File(<<>>, "IMG1", "image/jpeg")],
      [method |-> "POST", file |-> File(CatJpg, "IMG1", "image/jpeg")],
      [method |-> "POST", file |-> File(PhotoPNG, "IMG2", "")],
      [method |-> "POST", file |-> File(CatJpg, NoBytes, "image/jpeg")],
      [method |-> "POST", file |-> File(NotesTxt, "IMG1", "text/plain")],
      [method |-> "POST", file |-> File(DotPng, "IMG2", "image/png")] }

-----------------------------------------------------------------------------
(* Strings and object stores *)

RECURSIVE Join(_)
\* The string made of the characters of cs.
Join(cs) == IF cs = <<>> THEN "" ELSE Head(cs) \o Join(Tail(cs))

UpperCase == <<"A", "B", "C", "D", "E", "F", "G", "H", "I", "J", "K", "L", "M",
               "N", "O", "P", "Q", "R", "S", "T", "U", "V", "W", "X", "Y", "Z">>
LowerCase == <<"a", "b", "c", "d", "e", "f", "g", "h", "i", "j", "k", "l", "m",
               "n", "o", "p", "q", "r", "s", "t", "u", "v", "w", "x", "y", "z">>

\* str.lower(), character by character.
Lower(cs) ==
    [i \in 1..Len(cs) |->
        IF \E k \in 1..26 : UpperCase[k] = cs[i]
        THEN LowerCase[CHOOSE k \in 1..26 : UpperCase[k] = cs[i]]
        ELSE cs[i]]

\* str.rfind(c), 1-based; 0 when c does not occur.
RFind(cs, c) ==
    IF \E i \in 1..Len(cs) : cs[i] = c
    THEN CHOOSE i \in 1..Len(cs) :
            cs[i] = c /\ \A j \in (i + 1)..Len(cs) : cs[j] /= c
    ELSE 0

\* os.path.splitext(p)[1]: the text from the last dot on, when that dot
\* comes after the last separator and after a character that is not a dot.
SplitExt(p) ==
    LET sepIndex == RFind(p, "/")
        dotIndex == RFind(p, ".")
    IN  IF /\ dotIndex > sepIndex
           /\ \E i \in (sepIndex + 1)..(dotIndex - 1) : p[i] /= "."
        THEN SubSeq(p, dotIndex, Len(p))
        ELSE <<>>

\* blob.upload_from_file: the object at key is created or overwritten.
Put(store, key, bytes) ==
    [k \in (DOMAIN store) \cup {key} |-> IF k = key THEN bytes ELSE store[k]]

EmptyStore == [k \in {} |-> ""]

\* Python's dict.get(key, default) on a JSON object.
Get(dict, key, default) == IF key \in DOMAIN dict THEN dict[key] ELSE default

NoDict == [k \in {} |-> ""]

-----------------------------------------------------------------------------
(* Messages *)

\* What json.dumps(d).encode("utf-8") becomes once the transport has wrapped
\* it in base64: an event whose data decodes to the JSON object d.
JsonEvent(d, attrs) == [kind |-> "json_object", payload |-> d, attributes |-> attrs]

-----------------------------------------------------------------------------
(* upload_image *)

HttpIdle ==
    [pc |-> "idle", req |-> [method |-> "GET", file |-> NoFile],
     upload_id |-> "", timestamp |-> "", ext |-> "", object_name |-> "",
     calls |-> <<>>, code |-> 0, body |-> NoDict]

\* jsonify(...), status: the invocation ends with this response.
Respond(h, code, body) == [h EXCEPT !.pc = "done", !.code = code, !.body = body]

\* bool(file) of a werkzeug FileStorage is bool(file.filename).
FileTruthy(file) == file.filename /= <<>>

\* uuid.uuid4(): a value no earlier call has returned.
Uuid4(n) == "uuid" \o ToString(n)

AllowedList == "['.bmp', '.gif', '.jpeg', '.jpg', '.png', '.tiff', '.webp']"

\* Rejection without the check of the extension.
RejectionAnyType(r, ext) ==
    IF r.method = "OPTIONS" THEN [code |-> 204, body |-> NoDict]
    ELSE IF r.method /= "POST" THEN
        [code |-> 405, body |-> [error |-> "Method not allowed. Use POST."]]
    ELSE IF ~r.file.present THEN
        [code |-> 400, body |-> [error |-> "Missing file. Send a multipart/form-data request with field name 'image'."]]
    ELSE IF r.file.filename = <<>> THEN
        [code |-> 400, body |-> [error |-> "Empty file or filename."]]
    ELSE [code |-> 0, body |-> NoDict]

\* Rejection without the check of the method.
RejectionAnyMethod(r, ext) ==
    IF r.method = "OPTIONS" THEN [code |-> 204, body |-> NoDict]
    ELSE IF ~r.file.present THEN
        [code |-> 400, body |-> [error |-> "Missing file. Send a multipart/form-data request with field name 'image'."]]
    ELSE IF r.file.filename = <<>> THEN
        [code |-> 400, body |-> [error |-> "Empty file or filename."]]
    ELSE IF ext \notin ALLOWED_EXTENSIONS THEN
        [code |-> 400, body |-> [error |-> "Unsupported file type '" \o ext
                                           \o "'. Allowed: " \o AllowedList]]
    ELSE [code |-> 0, body |-> NoDict]

\* Lines 40-67: the response that rejects request r, or code 0 when r passes
\* every check; ext is the lower-cased extension of the filename.
Rejection(r, ext) ==
    IF r.method = "OPTIONS" THEN [code |-> 204, body |-> NoDict]
    ELSE IF r.method /= "POST" THEN
        [code |-> 405, body |-> [error |-> "Method not allowed. Use POST."]]
    ELSE IF ~r.file.present THEN
        [code |-> 400, body |-> [error |-> "Missing file. Send a multipart/form-data request with field name 'image'."]]
    ELSE IF ~FileTruthy(r.file) \/ r.file.filename = <<>> THEN
        [code |-> 400, body |-> [error |-> "Empty file or filename."]]
    ELSE IF ext \notin ALLOWED_EXTENSIONS THEN
        [code |-> 400, body |-> [error |-> "Unsupported file type '" \o ext
                                           \o "'. Allowed: " \o AllowedList]]
    ELSE [code |-> 0, body |-> NoDict]

\* The history of answers once invocation h has taken its step; a request
\* rejected by the checks has no upload_id and leaves no trace.
Answered(h) ==
    IF h.pc = "done" /\ h.upload_id /= "" THEN responses \cup {h} ELSE responses

\* Lines 40-72: the checks on the request, then the object name.
UploadReceive(r) ==
    /\ http.pc \in {"idle", "done"}
    /\ nRequests < MaxUploads
    /\ nRequests' = nRequests + 1
    /\ LET h == [HttpIdle EXCEPT !.req = r]
           ext == Join(Lower(SplitExt(r.file.filename)))
           rejection == Rejection(r, ext)
           upload_id == Uuid4(nRequests + 1)
           timestamp == UtcNowStamp
       IN  http' =
             IF rejection.code /= 0
             THEN Respond(h, rejection.code, rejection.body)
             ELSE [h EXCEPT !.pc = "store", !.upload_id = upload_id,
                            !.timestamp = timestamp, !.ext = ext,
                            !.object_name = timestamp \o "_" \o upload_id \o ext]
    /\ responses' = Answered(http')
    /\ UNCHANGED <<rawStore, processedStore, queueA, queueB, nEvents, proc,
                   notif, sink>>

\* A call the invocation has made, with what became of it.
Call(fn, result) == [fn |-> fn, result |-> result]

\* UploadStore with the exception swallowed: the handler goes on to publish.
UploadStoreSwallow(ok) ==
    /\ http.pc = "store"
    /\ rawStore' = IF ok THEN Put(rawStore, http.object_name, http.req.file.content)
                   ELSE rawStore
    /\ http' = [http EXCEPT !.pc = "publish",
                    !.calls = Append(@, Call("upload_from_file",
                                             IF ok THEN "ok" ELSE "raised"))]
    /\ responses' = Answered(http')
    /\ UNCHANGED <<processedStore, queueA, queueB, nEvents, nRequests,
                   proc, notif, sink>>

\* Lines 74-86: the raw bytes go to the uploads bucket, or the call raises.
UploadStore(ok) ==
    /\ http.pc = "store"
    /\ IF ok
       THEN /\ rawStore' = Put(rawStore, http.object_name, http.req.file.content)
            /\ http' = [http EXCEPT !.pc = "publish",
                            !.calls = Append(@, Call("upload_from_file", "ok"))]
       ELSE /\ rawStore' = rawStore
            /\ http' = Respond([http EXCEPT !.calls = Append(@, Call("upload_from_file", "raised"))],
                               500, [error |-> "Failed to store image. Please retry."])
    /\ responses' = Answered(http')
    /\ UNCHANGED <<processedStore, queueA, queueB, nEvents, nRequests,
                   proc, notif, sink>>

\* file.content_type or "image/jpeg"
ContentTypeOf(file) == IF file.content_type = "" THEN "image/jpeg" ELSE file.content_type

\* message_data naming the object after the uploaded file.
message_data_filename(h) ==
    [upload_id |-> h.upload_id,
     bucket |-> UPLOADS_BUCKET,
     object_name |-> Join(h.req.file.filename),
     original_filename |-> Join(h.req.file.filename),
     content_type |-> ContentTypeOf(h.req.file),
     timestamp |-> h.timestamp]

\* Lines 89-96.
message_data(h) ==
    [upload_id |-> h.upload_id,
     bucket |-> UPLOADS_BUCKET,
     object_name |-> h.object_name,
     original_filename |-> Join(h.req.file.filename),
     content_type |-> ContentTypeOf(h.req.file),
     timestamp |-> h.timestamp]

\* The outcomes of publish(...) followed by future.result(timeout=10):
\*   "ok"        the message is on the topic and result() returned its id;
\*   "failed"    the call raised and the message is not on the topic;
\*   "timed_out" result() raised after 10 seconds; the publish it was
\*               waiting for is not cancelled and put the message on the
\*               topic all the same.
PublishOutcomes == {"ok", "failed", "timed_out"}

\* Lines 98-115: publish the Processing Request and answer.
UploadPublish(outcome) ==
    /\ http.pc = "publish"
    /\ LET h == [http EXCEPT !.calls = Append(@, Call("publish", outcome))]
           msg == JsonEvent(message_data(http), [upload_id |-> http.upload_id])
       IN  /\ queueA' = IF outcome \in {"ok", "timed_out"}
                        THEN Append(queueA, msg) ELSE queueA
           /\ http' =
                IF outcome = "ok"
                THEN Respond(h, 202,
                        [upload_id |-> http.upload_id,
                         object_name |-> http.object_name,
                         message |-> "Image accepted and queued for processing.",
                         status |-> "PROCESSING"])
                ELSE Respond(h, 500,
                        [error |-> "Image stored but failed to queue for processing."])
    /\ responses' = Answered(http')
    /\ UNCHANGED <<rawStore, processedStore, queueB, nEvents, nRequests,
                   proc, notif, sink>>

-----------------------------------------------------------------------------
(* process_image *)

\* Events that did not come from upload_image: the payloads the decode and
\* validation steps of the two consumers have to cope with.
ForeignEvents ==
    { [kind |-> "no_data", payload |-> NoDict, attributes |-> NoDict],
      [kind |-> "bad_base64", payload |-> NoDict, attributes |-> NoDict],
      [kind |-> "non_utf8", payload |-> NoDict, attributes |-> NoDict],
      [kind |-> "bad_json", payload |-> NoDict, attributes |-> NoDict],
      [kind |-> "json_non_object", payload |-> NoDict, attributes |-> NoDict],
      JsonEvent([upload_id |-> "abc-123"], NoDict),
      JsonEvent([upload_id |-> "abc-123", object_name |-> ""], NoDict) }

\* The exception _decode_pubsub_message raises on the event, "none" if it
\* returns: ValueError for no data, binascii.Error from b64decode,
\* UnicodeDecodeError from decode("utf-8"), JSONDecodeError from json.loads.
DecodeError(ev) ==
    CASE ev.kind = "no_data" -> "ValueError"
      [] ev.kind = "bad_base64" -> "binascii.Error"
      [] ev.kind = "non_utf8" -> "UnicodeDecodeError"
      [] ev.kind = "bad_json" -> "JSONDecodeError"
      [] OTHER -> "none"

\* The classes caught by "except (ValueError, json.JSONDecodeError)":
\* binascii.Error, UnicodeDecodeError and JSONDecodeError derive from
\* ValueError.
CaughtOnDecode == {"ValueError", "binascii.Error", "UnicodeDecodeError", "JSONDecodeError"}

ProcIdle ==
    [pc |-> "idle", event |-> JsonEvent(NoDict, NoDict), index |-> 0,
     upload_id |-> "", src_bucket |-> "", object_name |-> "",
     image_bytes |-> "", output_buf |-> "", processed_name |-> "",
     calls |-> <<>>, exc |-> ""]

\* The invocation ends by returning (the message is acknowledged).
Return(p) == [p EXCEPT !.pc = "returned"]

\* The invocation ends with an exception (the message will be redelivered).
Raise(p, exc) == [p EXCEPT !.pc = "raised", !.exc = exc]

\* Lines 50-66 on event ev.
Decoded(p0, ev) ==
    LET p == [p0 EXCEPT !.event = ev]
        payload == ev.payload
        object_name == Get(payload, "object_name", "")
    IN  IF DecodeError(ev) \in CaughtOnDecode THEN Return(p)
        ELSE IF DecodeError(ev) /= "none" THEN Raise(p, DecodeError(ev))
        ELSE IF ev.kind /= "json_object" THEN Raise(p, "AttributeError")
        ELSE LET q == [p EXCEPT !.upload_id = Get(payload, "upload_id", "unknown"),
                                !.src_bucket = Get(payload, "bucket", UPLOADS_BUCKET),
                                !.object_name = object_name]
             IN  IF object_name = "" THEN Return(q)
                 ELSE [q EXCEPT !.pc = "download"]

Free(w) == proc[w].pc \in {"idle", "returned", "raised"}

\* The runtime hands an event to the first instance that is not busy.
Routed(w) == Free(w) /\ (w = "w1" \/ ~Free("w1"))

\* The queue delivers queueA[i] to instance w (a first delivery or a
\* redelivery), which decodes and validates it.
ProcessDeliver(w, i) ==
    /\ Routed(w)
    /\ i \in 1..Len(queueA)
    /\ nEvents < MaxEvents
    /\ nEvents' = nEvents + 1
    /\ proc' = [proc EXCEPT ![w] = Decoded([ProcIdle EXCEPT !.index = i], queueA[i])]
    /\ UNCHANGED <<rawStore, processedStore, queueA, queueB, http,
                   nRequests, responses, notif, sink>>

\* An event that upload_image did not publish reaches instance w.
ProcessForeign(w, ev) ==
    /\ Routed(w)
    /\ nEvents < MaxEvents
    /\ nEvents' = nEvents + 1
    /\ proc' = [proc EXCEPT ![w] = Decoded(ProcIdle, ev)]
    /\ UNCHANGED <<rawStore, processedStore, queueA, queueB, http,
                   nRequests, responses, notif, sink>>

\* The bucket of that name.
Bucket(name) ==
    IF name = UPLOADS_BUCKET THEN rawStore
    ELSE IF name = PROCESSED_BUCKET THEN processedStore
    ELSE EmptyStore

\* Image.open(...).convert("L") saved as JPEG at quality 90: a function of
\* the source bytes alone.
Grayscale(bytes) == "jpeg90(L(" \o bytes \o "))"

\* Lines 68-89: download the source object, then convert it in memory.
ProcessDownload(w, ok) ==
    /\ proc[w].pc = "download"
    /\ LET p == proc[w]
           bucket == Bucket(p.src_bucket)
       IN  proc' = [proc EXCEPT ![w] =
             IF ~ok \/ p.object_name \notin DOMAIN bucket
             THEN Raise([p EXCEPT !.calls = Append(@, Call("download_as_bytes", "raised"))],
                        "download")
             ELSE LET image_bytes == bucket[p.object_name]
                      q == [p EXCEPT !.image_bytes = image_bytes,
                                     !.calls = Append(@, Call("download_as_bytes", "ok"))]
                  IN  IF image_bytes \notin ValidImages
                      THEN Raise(q, "convert")
                      ELSE [q EXCEPT !.pc = "upload",
                                     !.output_buf = Grayscale(image_bytes)]]
    /\ UNCHANGED <<rawStore, processedStore, queueA, queueB, nEvents, http,
                   nRequests, responses, notif, sink>>

\* processed_name with the time of processing in it, as in the raw key.
processed_name_stamped(p) ==
    "grayscale_" \o p.upload_id \o "_" \o UtcNowIso(Len(queueB)) \o ".jpg"

\* processed_name derived from the name of the source object.
processed_name_source(p) == "grayscale_" \o p.object_name

\* Line 93.
processed_name(p) == "grayscale_" \o p.upload_id \o ".jpg"

\* The write to the processed bucket with its failure logged and not raised.
ProcessUploadSwallow(w, ok) ==
    /\ proc[w].pc = "upload"
    /\ LET p == [proc[w] EXCEPT !.processed_name = processed_name(proc[w])]
       IN  /\ processedStore' = IF ok THEN Put(processedStore, p.processed_name, p.output_buf)
                                 ELSE processedStore
           /\ proc' = [proc EXCEPT ![w] =
                [p EXCEPT !.pc = "publish",
                          !.calls = Append(@, Call("upload_from_file",
                                                   IF ok THEN "ok" ELSE "raised"))]]
    /\ UNCHANGED <<rawStore, queueA, queueB, nEvents, http, nRequests,
                   responses, notif, sink>>

\* The write of the converted image over the source object.
ProcessUploadInPlace(w, ok) ==
    /\ proc[w].pc = "upload"
    /\ LET p == [proc[w] EXCEPT !.processed_name = proc[w].object_name]
       IN  IF ok
           THEN /\ rawStore' = Put(rawStore, p.processed_name, p.output_buf)
                /\ proc' = [proc EXCEPT ![w] =
                     [p EXCEPT !.pc = "publish",
                               !.calls = Append(@, Call("upload_from_file", "ok"))]]
           ELSE /\ rawStore' = rawStore
                /\ proc' = [proc EXCEPT ![w] =
                     Raise([p EXCEPT !.calls = Append(@, Call("upload_from_file", "raised"))],
                           "upload")]
    /\ UNCHANGED <<processedStore, queueA, queueB, nEvents, http, nRequests,
                   responses, notif, sink>>

\* Lines 91-101: write the converted image to the processed bucket.
ProcessUpload(w, ok) ==
    /\ proc[w].pc = "upload"
    /\ LET p == [proc[w] EXCEPT !.processed_name = processed_name(proc[w])]
       IN  IF ok
           THEN /\ processedStore' = Put(processedStore, p.processed_name, p.output_buf)
                /\ proc' = [proc EXCEPT ![w] =
                     [p EXCEPT !.pc = "publish",
                               !.calls = Append(@, Call("upload_from_file", "ok"))]]
           ELSE /\ processedStore' = processedStore
                /\ proc' = [proc EXCEPT ![w] =
                     Raise([p EXCEPT !.calls = Append(@, Call("upload_from_file", "raised"))],
                           "upload")]
    /\ UNCHANGED <<rawStore, queueA, queueB, nEvents, http, nRequests,
                   responses, notif, sink>>

\* result_payload naming the source object as the processed one.
result_payload_source(p) ==
    [upload_id |-> p.upload_id,
     status |-> "SUCCESS",
     original_bucket |-> p.src_bucket,
     original_object |-> p.object_name,
     original_filename |-> Get(p.event.payload, "original_filename", p.object_name),
     processed_bucket |-> PROCESSED_BUCKET,
     processed_object |-> p.object_name,
     processed_at |-> UtcNowIso(Len(queueB))]

\* Lines 104-113.
result_payload(p) ==
    [upload_id |-> p.upload_id,
     status |-> "SUCCESS",
     original_bucket |-> p.src_bucket,
     original_object |-> p.object_name,
     original_filename |-> Get(p.event.payload, "original_filename", p.object_name),
     processed_bucket |-> PROCESSED_BUCKET,
     processed_object |-> p.processed_name,
     processed_at |-> UtcNowIso(Len(queueB))]

\* The publish with its failure logged and not raised.
ProcessPublishSwallow(w, outcome) ==
    /\ proc[w].pc = "publish"
    /\ LET p == [proc[w] EXCEPT !.calls = Append(@, Call("publish", outcome))]
           msg == JsonEvent(result_payload(p),
                            [upload_id |-> p.upload_id, status |-> "SUCCESS"])
       IN  /\ queueB' = IF outcome \in {"ok", "timed_out"}
                        THEN Append(queueB, msg) ELSE queueB
           /\ proc' = [proc EXCEPT ![w] = Return(p)]
    /\ UNCHANGED <<rawStore, processedStore, queueA, nEvents, http,
                   nRequests, responses, notif, sink>>

\* Lines 115-126: publish the Processing Result.
ProcessPublish(w, outcome) ==
    /\ proc[w].pc = "publish"
    /\ LET p == [proc[w] EXCEPT !.calls = Append(@, Call("publish", outcome))]
           msg == JsonEvent(result_payload(p),
                            [upload_id |-> p.upload_id, status |-> "SUCCESS"])
       IN  /\ queueB' = IF outcome \in {"ok", "timed_out"}
                        THEN Append(queueB, msg) ELSE queueB
           /\ proc' = [proc EXCEPT ![w] =
                        IF outcome = "ok" THEN Return(p) ELSE Raise(p, "publish")]
    /\ UNCHANGED <<rawStore, processedStore, queueA, nEvents, http,
                   nRequests, responses, notif, sink>>

-----------------------------------------------------------------------------
(* log_notification *)

NotifIdle == [pc |-> "idle", event |-> JsonEvent(NoDict, NoDict), id |-> "", exc |-> ""]

\* log_entry with the record of a CloudEvent id seen before marked as such.
log_entry_marked(ev, id) ==
    LET payload == ev.payload
        upload_id == Get(payload, "upload_id", "unknown")
        seen == \E k \in DOMAIN sink : sink[k].cloud_event_id = id
    IN  [severity |-> "INFO",
         message |-> "Image pipeline completed for upload_id=" \o upload_id,
         event_type |-> "IMAGE_PROCESSING_COMPLETE",
         upload_id |-> upload_id,
         status |-> IF seen THEN "DUPLICATE" ELSE Get(payload, "status", "UNKNOWN"),
         original |-> [bucket |-> Get(payload, "original_bucket", ""),
                       object |-> Get(payload, "original_object", ""),
                       filename |-> Get(payload, "original_filename", "")],
         processed |-> [bucket |-> Get(payload, "processed_bucket", ""),
                        object |-> Get(payload, "processed_object", "")],
         pipeline_completed_at |-> UtcNowIso(Len(sink)),
         processed_at |-> Get(payload, "processed_at", ""),
         cloud_event_id |-> id]

\* Lines 44-62.
log_entry(ev, id) ==
    LET payload == ev.payload
        upload_id == Get(payload, "upload_id", "unknown")
    IN  [severity |-> "INFO",
         message |-> "Image pipeline completed for upload_id=" \o upload_id,
         event_type |-> "IMAGE_PROCESSING_COMPLETE",
         upload_id |-> upload_id,
         status |-> Get(payload, "status", "UNKNOWN"),
         original |-> [bucket |-> Get(payload, "original_bucket", ""),
                       object |-> Get(payload, "original_object", ""),
                       filename |-> Get(payload, "original_filename", "")],
         processed |-> [bucket |-> Get(payload, "processed_bucket", ""),
                        object |-> Get(payload, "processed_object", "")],
         pipeline_completed_at |-> UtcNowIso(Len(sink)),
         processed_at |-> Get(payload, "processed_at", ""),
         cloud_event_id |-> id]

\* Lines 34-72 on event ev with CloudEvent id; printOk is whether the
\* write to stdout succeeds.
LogHandle(ev, id, printOk) ==
    LET n == [NotifIdle EXCEPT !.event = ev, !.id = id]
    IN  IF DecodeError(ev) \in CaughtOnDecode
        THEN /\ notif' = Return(n)
             /\ sink' = sink
        ELSE IF DecodeError(ev) /= "none"
        THEN /\ notif' = Raise(n, DecodeError(ev))
             /\ sink' = sink
        ELSE IF ev.kind /= "json_object"
        THEN /\ notif' = Raise(n, "AttributeError")
             /\ sink' = sink
        ELSE IF ~printOk
        THEN /\ notif' = Raise(n, "OSError")
             /\ sink' = sink
        ELSE /\ notif' = Return(n)
             /\ sink' = Append(sink, log_entry(ev, id))

\* The queue delivers queueB[j] (a first delivery or a redelivery).
LogDeliver(j, printOk) ==
    /\ j \in 1..Len(queueB)
    /\ nEvents < MaxEvents
    /\ nEvents' = nEvents + 1
    /\ LogHandle(queueB[j], "B" \o ToString(j), printOk)
    /\ UNCHANGED <<rawStore, processedStore, queueA, queueB, http,
                   nRequests, responses, proc>>

\* Events on the results topic that process_image did not publish: text
\* that is not JSON, JSON that is not an object, and an object without any
\* of the fields.
ForeignResults ==
    { ev \in ForeignEvents : ev.kind \in {"bad_json", "json_non_object"} }
        \cup {JsonEvent(NoDict, NoDict)}

\* An event that process_image did not publish reaches log_notification.
LogForeign(ev, printOk) ==
    /\ nEvents < MaxEvents
    /\ nEvents' = nEvents + 1
    /\ LogHandle(ev, "F", printOk)
    /\ UNCHANGED <<rawStore, processedStore, queueA, queueB, http,
                   nRequests, responses, proc>>

-----------------------------------------------------------------------------
(* The pipeline *)

Init ==
    /\ rawStore = EmptyStore
    /\ processedStore = EmptyStore
    /\ queueA = <<>>
    /\ queueB = <<>>
    /\ nEvents = 0
    /\ http = HttpIdle
    /\ nRequests = 0
    /\ responses = {}
    /\ proc = [w \in Workers |-> ProcIdle]
    /\ notif = NotifIdle
    /\ sink = <<>>

Next ==
    \/ \E r \in Requests : UploadReceive(r)
    \/ \E ok \in BOOLEAN : UploadStore(ok)
    \/ \E outcome \in PublishOutcomes : UploadPublish(outcome)
    \/ \E w \in Workers, i \in 1..Len(queueA) : ProcessDeliver(w, i)
    \/ \E w \in Workers, ev \in ForeignEvents : ProcessForeign(w, ev)
    \/ \E w \in Workers, ok \in BOOLEAN : ProcessDownload(w, ok)
    \/ \E w \in Workers, ok \in BOOLEAN : ProcessUpload(w, ok)
    \/ \E w \in Workers, outcome \in PublishOutcomes : ProcessPublish(w, outcome)
    \/ \E j \in 1..Len(queueB), printOk \in BOOLEAN : LogDeliver(j, printOk)

\* The pipeline with foreign events on the request topic.
Spec == Init /\ [][Next]_vars

NextResults ==
    \/ \E r \in Requests : UploadReceive(r)
    \/ \E ok \in BOOLEAN : UploadStore(ok)
    \/ \E outcome \in PublishOutcomes : UploadPublish(outcome)
    \/ \E w \in Workers, i \in 1..Len(queueA) : ProcessDeliver(w, i)
    \/ \E w \in Workers, ok \in BOOLEAN : ProcessDownload(w, ok)
    \/ \E w \in Workers, ok \in BOOLEAN : ProcessUpload(w, ok)
    \/ \E w \in Workers, outcome \in PublishOutcomes : ProcessPublish(w, outcome)
    \/ \E j \in 1..Len(queueB), printOk \in BOOLEAN : LogDeliver(j, printOk)
    \/ \E ev \in ForeignResults, printOk \in BOOLEAN : LogForeign(ev, printOk)

\* The pipeline with foreign events on the results topic.
SpecResults == Init /\ [][NextResults]_vars

-----------------------------------------------------------------------------
(* The pipeline without failing calls, under fair delivery *)

\* The requests, and two more whose bytes are not an image.
LiveRequests ==
    Requests \cup { [method |-> "POST", file |-> File(CatJpg, "JUNK", "image/jpeg")],
                    [method |-> "POST", file |-> File(PhotoPNG, "JUNK", "image/png")] }

\* An invocation of process_image on queueA[i] has returned, which with no
\* failing call it does after it has published its result: the queue holds
\* the request as acknowledged.
AckedA(i) ==
    \E j \in DOMAIN queueB :
        /\ queueB[j].payload.upload_id = queueA[i].payload.upload_id
        /\ queueB[j].payload.original_object = queueA[i].payload.object_name

\* An invocation of log_notification on queueB[j] has returned, which with
\* no failing call it does after it has printed its record.
AckedB(j) ==
    \E k \in DOMAIN sink : sink[k].cloud_event_id = "B" \o ToString(j)

\* The queue delivers a request that no invocation has acknowledged, as it
\* does for as long as the request is unacknowledged.
ProcessDeliverUnacked(w, i) ==
    /\ Routed(w)
    /\ i \in 1..Len(queueA)
    /\ ~AckedA(i)
    /\ proc' = [proc EXCEPT ![w] = Decoded([ProcIdle EXCEPT !.index = i], queueA[i])]
    /\ UNCHANGED <<rawStore, processedStore, queueA, queueB, nEvents, http,
                   nRequests, responses, notif, sink>>

\* The queue delivers a result that no invocation has acknowledged.
LogDeliverUnacked(j) ==
    /\ j \in 1..Len(queueB)
    /\ ~AckedB(j)
    /\ LogHandle(queueB[j], "B" \o ToString(j), TRUE)
    /\ UNCHANGED <<rawStore, processedStore, queueA, queueB, nEvents, http,
                   nRequests, responses, proc>>

\* Every store and queue call succeeds, and a message is delivered until an
\* invocation has acknowledged it; two instances can be at work on one
\* request.
NextLive ==
    \/ \E r \in LiveRequests : UploadReceive(r)
    \/ UploadStore(TRUE)
    \/ UploadPublish("ok")
    \/ \E w \in Workers, i \in 1..Len(queueA) : ProcessDeliverUnacked(w, i)
    \/ \E w \in Workers : ProcessDownload(w, TRUE)
    \/ \E w \in Workers : ProcessUpload(w, TRUE)
    \/ \E w \in Workers : ProcessPublish(w, "ok")
    \/ \E j \in 1..Len(queueB) : LogDeliverUnacked(j)

\* The most results queue B can hold: one from each instance for each
\* request.
MaxResults == Cardinality(Workers) * MaxUploads

\* A started invocation runs to completion, and the queues deliver every
\* unacknowledged message again and again.
Fairness ==
    /\ WF_vars(UploadStore(TRUE))
    /\ WF_vars(UploadPublish("ok"))
    /\ \A w \in Workers :
          /\ WF_vars(ProcessDownload(w, TRUE))
          /\ WF_vars(ProcessUpload(w, TRUE))
          /\ WF_vars(ProcessPublish(w, "ok"))
    /\ \A i \in 1..MaxUploads :
          SF_vars(\E w \in Workers : ProcessDeliverUnacked(w, i))
    /\ \A j \in 1..MaxResults : WF_vars(LogDeliverUnacked(j))

SpecLive == Init /\ [][NextLive]_vars /\ Fairness

-----------------------------------------------------------------------------
(* Properties *)

\* The requests on queue A that carry upload_id.
RequestsFor(upload_id) ==
    {i \in DOMAIN queueA : queueA[i].payload.upload_id = upload_id}

\* The results on queue B for the request that invocation p is processing.
ResultsFor(p) ==
    {j \in DOMAIN queueB : /\ queueB[j].payload.upload_id = p.upload_id
                           /\ queueB[j].payload.original_object = p.object_name}

\* Invocation h has made call fn and it ended in result.
Made(h, fn, result) == \E k \in DOMAIN h.calls : h.calls[k] = Call(fn, result)

\* Invocation h has made call fn.
Called(h, fn) == \E k \in DOMAIN h.calls : h.calls[k].fn = fn

\* C1: once a run of process_image on a Processing Request has published its
\* result, the write of a later run on the same request leaves the processed
\* bucket exactly as it was: no new key, no changed bytes.
C1_Idempotent ==
    [][\A w \in Workers :
         (/\ proc[w].pc = "upload"
          /\ proc'[w].pc = "publish"
          /\ ResultsFor(proc[w]) /= {})
         => processedStore' = processedStore]_vars

\* Two runs on the same request have completed and the artifact is in place.
C1_Witness ==
    \E w \in Workers :
        /\ proc[w].pc = "returned"
        /\ proc[w].index > 0
        /\ Cardinality(ResultsFor(proc[w])) = 2
        /\ DOMAIN processedStore = {proc[w].processed_name}
        /\ processedStore[proc[w].processed_name] = proc[w].output_buf

\* The payloads the claim calls malformed.
Malformed(ev) ==
    \/ ev.kind /= "json_object"
    \/ Get(ev.payload, "object_name", "") = ""

\* C2: on every malformed payload process_image returns without raising and
\* has called neither the store nor the queue.
C2_PoisonDropped ==
    \A w \in Workers :
        (proc[w].pc /= "idle" /\ Malformed(proc[w].event))
        => (proc[w].pc = "returned" /\ proc[w].calls = <<>>)

\* C3: the raw object named by a Processing Request on queue A is in the
\* uploads bucket.
C3_StoredBeforeQueued ==
    \A i \in DOMAIN queueA :
        /\ queueA[i].payload.bucket = UPLOADS_BUCKET
        /\ queueA[i].payload.object_name \in DOMAIN rawStore

\* A consumer has fetched the object of a request it received.
C3_Witness ==
    \E w \in Workers :
        /\ proc[w].index \in DOMAIN queueA
        /\ Made(proc[w], "download_as_bytes", "ok")
        /\ proc[w].image_bytes = rawStore[queueA[proc[w].index].payload.object_name]

\* C4: an upload whose write to the uploads bucket raised is answered 500,
\* has not called publish, and has no Processing Request on queue A.
C4_StoreFailureNoPublish ==
    \A h \in responses \cup {http} :
        Made(h, "upload_from_file", "raised")
        => /\ h.pc = "done"
           /\ h.code = 500
           /\ ~Called(h, "publish")
           /\ RequestsFor(h.upload_id) = {}

\* An upload whose store write raised has been answered.
C4_Witness ==
    \E h \in responses :
        /\ Made(h, "upload_from_file", "raised")
        /\ h.code = 500
        /\ h.object_name \notin DOMAIN rawStore

NotQueuedError == "Image stored but failed to queue for processing."

\* C5: after the answer 500 'Image stored but failed to queue for
\* processing' the raw object is stored, queue A has no Processing Request
\* for the upload_id and the processed bucket no artifact for it.
C5_NotQueued ==
    \A h \in responses :
        (h.code = 500 /\ h.body = [error |-> NotQueuedError])
        => /\ h.object_name \in DOMAIN rawStore
           /\ RequestsFor(h.upload_id) = {}
           /\ ("grayscale_" \o h.upload_id \o ".jpg") \notin DOMAIN processedStore

\* C6: a request answered 202 has exactly one Processing Request on queue A,
\* its bytes are stored under the object name of the response, and the
\* message carries the upload_id and object_name of the response; an answer
\* with another status carries no upload_id and no PROCESSING marker.
C6_Accepted ==
    /\ \A h \in responses :
         h.code = 202
         => /\ Cardinality(RequestsFor(h.body.upload_id)) = 1
            /\ h.body.object_name \in DOMAIN rawStore
            /\ rawStore[h.body.object_name] = h.req.file.content
            /\ \A i \in RequestsFor(h.body.upload_id) :
                 queueA[i].payload.object_name = h.body.object_name
    /\ \A h \in responses \cup {http} :
         (h.pc = "done" /\ h.code /= 202)
         => DOMAIN h.body \cap {"upload_id", "status"} = {}

\* A request has been answered 202.
C6_Witness ==
    \E h \in responses :
        /\ h.code = 202
        /\ h.body.status = "PROCESSING"
        /\ RequestsFor(h.body.upload_id) /= {}

\* The request is a POST with a named file whose extension is not allowed.
DisallowedUpload(r) ==
    /\ r.method = "POST"
    /\ r.file.present
    /\ r.file.filename /= <<>>
    /\ Join(Lower(SplitExt(r.file.filename))) \notin ALLOWED_EXTENSIONS

\* C7: an upload with an extension outside the allow-list is answered 400
\* without a call to the store or to the queue.
C7_DisallowedExtension ==
    (http.pc /= "idle" /\ DisallowedUpload(http.req))
    => (http.pc = "done" /\ http.code = 400 /\ http.calls = <<>>)

\* notes.txt has been rejected, the bucket and the queue untouched.
C7_Witness ==
    /\ http.pc = "done"
    /\ http.req.file.filename = NotesTxt
    /\ http.code = 400
    /\ rawStore = EmptyStore
    /\ queueA = <<>>

\* C8: a POST whose 'image' field is missing, has no filename, or has zero
\* bytes of content is answered 400 without a call to the store or to the
\* queue.
C8_EmptyFileRejected ==
    (/\ http.pc /= "idle"
     /\ http.req.method = "POST"
     /\ \/ ~http.req.file.present
        \/ http.req.file.filename = <<>>
        \/ http.req.file.content = NoBytes)
    => (http.pc = "done" /\ http.code = 400 /\ http.calls = <<>>)

\* C9 as stated: every request whose method is not POST is answered 405
\* without a call to the store or to the queue.
C9_Original ==
    (http.pc /= "idle" /\ http.req.method /= "POST")
    => (http.pc = "done" /\ http.code = 405 /\ http.calls = <<>>)

\* C9 amended: a request whose method is not POST is answered without a call
\* to the store or to the queue, 204 when the method is OPTIONS and 405
\* otherwise.
C9_NonWriteMethods ==
    (http.pc /= "idle" /\ http.req.method /= "POST")
    => /\ http.pc = "done"
       /\ http.calls = <<>>
       /\ http.code = IF http.req.method = "OPTIONS" THEN 204 ELSE 405

\* A DELETE carrying an acceptable file has been answered 405.
C9_Witness ==
    /\ http.pc = "done"
    /\ http.req.method = "DELETE"
    /\ http.req.file.present
    /\ http.code = 405
    /\ rawStore = EmptyStore

\* C10: the key process_image writes is 'grayscale_' + upload_id + '.jpg'
\* with the upload_id of the request, and the processed bucket holds no key
\* of another form.
C10_ProcessedKey ==
    /\ \A w \in Workers :
         Called(proc[w], "upload_from_file")
         => /\ proc[w].processed_name =
                 "grayscale_" \o Get(proc[w].event.payload, "upload_id", "unknown") \o ".jpg"
            /\ Made(proc[w], "upload_from_file", "ok")
                 => proc[w].processed_name \in DOMAIN processedStore
    /\ DOMAIN processedStore \subseteq
         {"grayscale_" \o queueA[i].payload.upload_id \o ".jpg" : i \in DOMAIN queueA}

\* The artifact of a .PNG upload is stored under a .jpg key.
C10_Witness ==
    \E w \in Workers :
        /\ Made(proc[w], "upload_from_file", "ok")
        /\ proc[w].event.payload.original_filename = Join(PhotoPNG)
        /\ proc[w].event.payload.content_type = "image/jpeg"
        /\ DOMAIN processedStore = {"grayscale_" \o Uuid4(1) \o ".jpg"}

\* C11: in process_image a call that failed is the last call of its
\* invocation and the invocation has raised; a failed conversion ends the
\* invocation before any write; the bucket is written only after the source
\* was fetched and converted, and publish is called only after the write
\* succeeded.
C11_FailureEndsRun ==
    \A w \in Workers :
        LET p == proc[w]
        IN  /\ \A k \in DOMAIN p.calls :
                   p.calls[k].result /= "ok" => (p.pc = "raised" /\ k = Len(p.calls))
            /\ p.exc = "convert" =>
                   /\ p.pc = "raised"
                   /\ ~Called(p, "upload_from_file")
                   /\ ~Called(p, "publish")
            /\ Called(p, "upload_from_file") =>
                   /\ Made(p, "download_as_bytes", "ok")
                   /\ p.output_buf = Grayscale(p.image_bytes)
            /\ Called(p, "publish") => Made(p, "upload_from_file", "ok")

\* An invocation whose write to the processed bucket raised has ended in
\* the exception without calling publish.
C11_Witness ==
    \E w \in Workers :
        /\ proc[w].pc = "raised"
        /\ proc[w].exc = "upload"
        /\ Made(proc[w], "upload_from_file", "raised")
        /\ ~Called(proc[w], "publish")
        /\ queueB = <<>>

\* C12: no invocation of log_notification ends in an exception, whatever
\* the delivered event is and whether or not the write to stdout succeeds.
C12_NeverRaises == notif.pc /= "raised"

\* C13: every Processing Result on queue B carries the upload_id of a
\* Processing Request on queue A for the same raw object; every invocation
\* of process_image works under the upload_id of the event it consumed;
\* and the completion record that an invocation of log_notification emitted
\* carries the upload_id that is in the event it consumed.
C13_UploadIdPreserved ==
    /\ \A j \in DOMAIN queueB :
          \E i \in DOMAIN queueA :
              /\ queueA[i].payload.upload_id = queueB[j].payload.upload_id
              /\ queueA[i].payload.object_name = queueB[j].payload.original_object
    /\ \A w \in Workers :
          proc[w].upload_id /= "" =>
              /\ "upload_id" \in DOMAIN proc[w].event.payload
              /\ proc[w].upload_id = proc[w].event.payload.upload_id
    /\ (notif.pc = "returned" /\ notif.event.kind = "json_object") =>
          /\ sink /= <<>>
          /\ "upload_id" \in DOMAIN notif.event.payload
          /\ sink[Len(sink)].upload_id = notif.event.payload.upload_id

\* The upload_ids upload_image can issue.
UploadIds == { Uuid4(n) : n \in 1..MaxUploads }

\* The upload with this upload_id was answered 202.
Accepted(id) == \E h \in responses : h.upload_id = id /\ h.code = 202

\* The bytes of the upload with this upload_id are an image Pillow can open.
Decodable(id) ==
    \E h \in responses : h.upload_id = id /\ h.req.file.content \in ValidImages

\* The artifact, a SUCCESS result and a completion record with both
\* locators exist for this upload_id.
Completed(id) ==
    /\ ("grayscale_" \o id \o ".jpg") \in DOMAIN processedStore
    /\ \E j \in DOMAIN queueB :
          /\ queueB[j].payload.upload_id = id
          /\ queueB[j].payload.status = "SUCCESS"
    /\ \E k \in DOMAIN sink :
          /\ sink[k].upload_id = id
          /\ sink[k].original.object /= ""
          /\ sink[k].processed.object /= ""

\* C14 as stated: with no failing store or queue call and fair delivery,
\* every upload answered 202 eventually has its artifact, a SUCCESS result
\* and a completion record.
C14_Original == \A id \in UploadIds : Accepted(id) ~> Completed(id)

\* C14: with no failing store or queue call and fair delivery, every upload
\* answered 202 whose bytes are a decodable image eventually has its
\* artifact, a SUCCESS result and a completion record.
C14_DecodableCompletes ==
    \A id \in UploadIds : (Accepted(id) /\ Decodable(id)) ~> Completed(id)

\* An accepted upload of a decodable image has gone through the pipeline.
C14_Witness ==
    \E id \in UploadIds : Accepted(id) /\ Decodable(id) /\ Completed(id)

\* Two completion records agree on upload_id, status and both locators.
SameOutcome(r1, r2) ==
    /\ r1.upload_id = r2.upload_id
    /\ r1.status = r2.status
    /\ r1.original = r2.original
    /\ r1.processed = r2.processed

\* C15: every delivery of a Processing Result from queue B whose write to
\* stdout succeeds returns without an exception and appends exactly one
\* completion record, which agrees in upload_id, status and both locators
\* with every record that earlier deliveries of the same message emitted;
\* a delivery ends in an exception only when that write itself failed.
C15_DuplicateRecords ==
    [][\A j \in DOMAIN queueB :
         ((notif' /= notif \/ sink' /= sink) /\ notif'.id = "B" \o ToString(j))
         => \/ /\ notif'.pc = "raised"
               /\ notif'.exc = "OSError"
               /\ sink' = sink
            \/ /\ notif'.pc = "returned"
               /\ Len(sink') = Len(sink) + 1
               /\ SubSeq(sink', 1, Len(sink)) = sink
               /\ \A k \in DOMAIN sink :
                     sink[k].cloud_event_id = notif'.id
                     => SameOutcome(sink[k], sink'[Len(sink')])]_vars

\* The same result was delivered twice and both deliveries left a record.
C15_Witness ==
    \E k1, k2 \in DOMAIN sink :
        /\ k1 < k2
        /\ sink[k1].cloud_event_id = sink[k2].cloud_event_id
        /\ SameOutcome(sink[k1], sink[k2])
        /\ notif.pc = "returned"
        /\ notif.event \in {queueB[j] : j \in DOMAIN queueB}

\* C16: for every Processing Result on queue B the processed bucket holds
\* the object its processed_object field names, and that name is
\* grayscale_<upload_id>.jpg.
C16_ArtifactBeforeResult ==
    \A j \in DOMAIN queueB :
        LET result == queueB[j].payload
        IN  /\ result.processed_bucket = PROCESSED_BUCKET
            /\ result.processed_object = "grayscale_" \o result.upload_id \o ".jpg"
            /\ result.processed_object \in DOMAIN processedStore

\* A result is on queue B whose publish call was made after the write of
\* the artifact it names.
C16_Witness ==
    \E w \in Workers, j \in DOMAIN queueB :
        /\ j \in ResultsFor(proc[w])
        /\ Len(proc[w].calls) = 3
        /\ proc[w].calls[2] = Call("upload_from_file", "ok")
        /\ proc[w].calls[3].fn = "publish"
        /\ processedStore[queueB[j].payload.processed_object] = proc[w].output_buf

\* Two Processing Results agree on everything but the time of processing.
SameResult(r1, r2) == [r1 EXCEPT !.processed_at = ""] = [r2 EXCEPT !.processed_at = ""]

\* C17: when both instances have been handed the same Processing Request,
\* whatever the interleaving of their steps: each write went to the one key
\* grayscale_<upload_id>.jpg, which holds the bytes a single run produces
\* from the raw object; an instance that raised did so on a failure of its
\* own conversion or of its own last call; and all results on queue B for
\* the request agree on everything but processed_at.
C17_ConcurrentRedeliveries ==
    \A i \in DOMAIN queueA :
        (\A w \in Workers : proc[w].index = i) =>
            LET request == queueA[i].payload
                name == "grayscale_" \o request.upload_id \o ".jpg"
                single == Grayscale(rawStore[request.object_name])
            IN  /\ \A w \in Workers :
                      LET p == proc[w]
                      IN  /\ Made(p, "upload_from_file", "ok") =>
                                 /\ p.processed_name = name
                                 /\ processedStore[name] = single
                          /\ p.pc = "raised" =>
                                 \/ p.exc = "convert" /\ p.image_bytes \notin ValidImages
                                 \/ /\ p.calls /= <<>>
                                    /\ p.calls[Len(p.calls)].result /= "ok"
                /\ \A j1, j2 \in DOMAIN queueB :
                      (/\ queueB[j1].payload.upload_id = request.upload_id
                       /\ queueB[j2].payload.upload_id = request.upload_id)
                      => SameResult(queueB[j1].payload, queueB[j2].payload)

\* Both instances are between their write and their publish on the same
\* request, and the bucket holds the one artifact.
C17_Witness ==
    /\ \A w \in Workers : proc[w].pc = "publish" /\ proc[w].index = 1
    /\ DOMAIN processedStore = {"grayscale_" \o queueA[1].payload.upload_id \o ".jpg"}

\* The step in which instance w ends its publish call.
PublishStep(w) == proc[w].pc = "publish" /\ proc'[w].pc /= "publish"

\* The step places exactly one result on queue B, for the request of w.
PlacesOne(w) ==
    /\ Len(queueB') = Len(queueB) + 1
    /\ SubSeq(queueB', 1, Len(queueB)) = queueB
    /\ queueB'[Len(queueB')].payload.upload_id = proc[w].upload_id

\* C18 as stated: an invocation places one result on queue B in the step in
\* which it returns from its publish, and an invocation that raises (at the
\* publish or before) or drops its message places none.
C18_Original ==
    [][/\ \A w \in Workers :
            PublishStep(w) =>
                \/ proc'[w].pc = "returned" /\ PlacesOne(w)
                \/ proc'[w].pc = "raised" /\ queueB' = queueB
       /\ (\A w \in Workers : ~PublishStep(w)) => queueB' = queueB]_vars

\* C18: an invocation that returns from its publish has placed exactly one
\* result; one that raises there has placed none, unless the publish timed
\* out, when the result may be on the queue all the same; every other step
\* (drop, failed fetch, conversion or write) leaves queue B as it is.
C18_ResultsPerRun ==
    [][/\ \A w \in Workers :
            PublishStep(w) =>
                \/ proc'[w].pc = "returned" /\ PlacesOne(w)
                \/ proc'[w].pc = "raised" /\ queueB' = queueB
                \/ /\ proc'[w].pc = "raised"
                   /\ Made(proc'[w], "publish", "timed_out")
                   /\ PlacesOne(w)
       /\ (\A w \in Workers : ~PublishStep(w)) => queueB' = queueB]_vars

\* An invocation has raised on a publish that timed out, and its result is
\* on queue B.
C18_Witness ==
    \E w \in Workers :
        /\ proc[w].pc = "raised"
        /\ Made(proc[w], "publish", "timed_out")
        /\ ResultsFor(proc[w]) /= {}

C20_RecordMeansArtifact ==
    \A k \in DOMAIN sink :
        LET record == sink[k]
        IN  /\ record.status = "SUCCESS"
            /\ RequestsFor(record.upload_id) /= {}
            /\ record.processed.bucket = PROCESSED_BUCKET
            /\ record.processed.object = "grayscale_" \o record.upload_id \o ".jpg"
            /\ record.processed.object \in DOMAIN processedStore
            /\ record.original.bucket = UPLOADS_BUCKET
            /\ record.original.object \in DOMAIN rawStore

\* A completion record has been emitted for an upload whose artifact and
\* raw object are in the buckets.
C20_Witness ==
    \E k \in DOMAIN sink, h \in responses :
        /\ sink[k].upload_id = h.upload_id
        /\ sink[k].original.object = h.object_name
        /\ sink[k].processed.object \in DOMAIN processedStore
        /\ h.object_name \in DOMAIN rawStore

====
